---- MODULE Spec2Model ----
(***************************************************************************)
(* Model of the boids predator/prey simulation: class Simulation           *)
(* (src/unnamed/part_001, first class) and class Boid                      *)
(* (src/unnamed/part_003).                                                 *)
(*                                                                         *)
(* Numbers.  Health is kept in hundredths (0.03 -> 3, 75 -> 7500), so the  *)
(* decay, grazing and kill arithmetic is exact.  Every tick runs with      *)
(* timeScale = deltaTime / timeStep = 1 (animate calls update(timeStep),   *)
(* spawnBoid calls update(1.0)), so both cooldowns are integers.           *)
(* Positions are integer canvas coordinates.  The steering forces are      *)
(* floating point sums that only decide where an agent moves; a move is    *)
(* a nondeterministic choice among Moves.                                  *)
(***************************************************************************)
EXTENDS Integers, Sequences, FiniteSets, TLC

VARIABLES
    boids,             \* this.boids: sequence of agent records
    nextId,            \* source of fresh Boid.id values
    cursorMode,        \* this.cursorMode
    walls,             \* this.walls: sequence of strokes (sequences of points)
    currentWall,       \* this.currentWall: [isNull, pts]
    lastDrawPoint,     \* this.lastDrawPoint: [isNull, x, y]
    wallSpatialIndex,  \* this.wallSpatialIndex: cell key -> sequence of points
    canvas,            \* << this.canvas.width, this.canvas.height >>
    pc,                \* position inside Simulation.update
    cur,               \* index of the agent the for-loop of update is at
    killedBoids,       \* local killedBoids of update (ids)
    newBoids,          \* local newBoids of update
    passIds,           \* ids of the agents already updated in the running tick
    ticks,             \* number of ticks run
    events,            \* number of input events handled
    lastOp,            \* the handler that ran last, with its inputs and result
    rt,                \* history of the first stroke drawn on an empty canvas
    running,           \* this.running
    accumulatedTime,   \* this.accumulatedTime, in thirds of a millisecond
    audioEnabled,      \* this.audioEnabled
    audioReady,        \* this.audioEngine._initialized
    audioTriggerCount, \* this.audioTriggerCount
    loop,              \* position inside Simulation.animate
    frames,            \* number of animation frames started
    frame,             \* the running frame: accumulatedTime after the cap, ticks run
    draws,             \* number of calls of draw
    boidCount,         \* this.config.boidCount
    kills,             \* history: the kills, as tick, predator id, prey id and
                       \* the predator's health after the kill
    chases,            \* history: predator id and tick of its latest chase
    bounce,            \* history: the latest call of handleWallCollision
    births,            \* history: the births, as tick, parent id and species
    cursorPosition,    \* this.cursorPosition, <<-100, -100>> off the canvas
    touchActive        \* this.touchActive

vars == << boids, nextId, cursorMode, walls, currentWall, lastDrawPoint,
           wallSpatialIndex, canvas, pc, cur, killedBoids, newBoids, passIds,
           ticks, events, lastOp, rt, running, accumulatedTime, audioEnabled,
           audioReady, audioTriggerCount, loop, frames, frame, draws,
           boidCount, kills, chases, bounce, births, cursorPosition,
           touchActive >>

loopVars == << running, accumulatedTime, audioEnabled, audioReady,
               audioTriggerCount, loop, frames, frame, draws, boidCount >>

traceVars == << kills, chases, bounce, births >>
tickVars == << pc, cur, killedBoids, newBoids, passIds, ticks, traceVars >>
wallVars == << walls, currentWall, lastDrawPoint, wallSpatialIndex >>
cursorVars == << cursorPosition, touchActive >>

-----------------------------------------------------------------------------
(* Bounds of the model *)

MaxEvents == 5        \* input events in one behaviour
MaxStrokePts == 12    \* points of the stroke being drawn
MaxTicks == 1         \* ticks in one behaviour
MaxInitBoids == 3     \* agents alive when the behaviour starts
MaxPop == 3           \* agents alive when a pointer event may still spawn one
MaxEcoEvents == 1     \* input events in one behaviour of the ecosystem
MaxFrames == 2        \* animation frames in one behaviour
MaxLoopEvents == 2    \* input events in one behaviour of the animation loop
MaxHuntTicks == 31    \* ticks in one behaviour of the hunt
MaxBreedTicks == 301  \* ticks in one behaviour of the breeding
MaxStarveTicks == 760 \* ticks in one behaviour of the starvation
MaxCursorTicks == 2   \* ticks in one behaviour of the cursor avoidance

(* Inputs: pointer positions.  They lie on one row and an even distance     *)
(* apart, so the interpolation of a drag yields integer coordinates.        *)
Pointers == { <<10, 10>>, <<14, 10>>, <<26, 10>> }

(* Canvas size at construction and after a resize event *)
InitCanvas == <<200, 40>>
ResizeDims == { <<12, 40>>, <<200, 40>> }

(* config.boidCount, and the positions initBoids draws for the agents *)
BoidCounts == { 4 }
InitPlaces == << <<14, 10>>, <<40, 10>>, <<190, 10>>, <<10, 10>> >>

(* Displacements of one agent in one update: the velocity after steering,   *)
(* whose length lies between minSpeed (1) and maxSpeed (3.2 or 4.5).        *)
Moves == { <<3, 0>>, <<-3, 0>> }

(* Offsets of a newborn from its parent: (Math.random() - 0.5) * 10 *)
Offsets == { <<2, -3>>, <<-4, 1>> }

-----------------------------------------------------------------------------
(* Program constants, Simulation constructor *)

gridCellSize == 20
wallBrushSize == 4
minDrawDistance == 2
eraserSize == wallBrushSize * 3

CURSOR_MODES == { "WALL", "ERASER", "BOID", "PREDATOR" }

NullWall == [isNull |-> TRUE, pts |-> << >>]
NullPoint == [isNull |-> TRUE, x |-> 0, y |-> 0]
OffCanvas == << -100, -100 >>
EmptyIndex == [k \in {} |-> << >>]

-----------------------------------------------------------------------------
(* Spatial index *)

CellKey(p) == << p.x \div gridCellSize, p.y \div gridCellSize >>

(* has / set / get(...).push of one point *)
IndexPut(idx, p) ==
    LET key == CellKey(p) IN
    IF key \in DOMAIN idx
      THEN [idx EXCEPT ![key] = Append(@, p)]
      ELSE [k \in (DOMAIN idx) \cup {key} |-> IF k = key THEN <<p>> ELSE idx[k]]

RECURSIVE IndexAll(_, _)
IndexAll(idx, pts) ==
    IF pts = << >> THEN idx ELSE IndexAll(IndexPut(idx, Head(pts)), Tail(pts))

RECURSIVE IndexWalls(_, _)
IndexWalls(idx, ws) ==
    IF ws = << >> THEN idx ELSE IndexWalls(IndexAll(idx, Head(ws)), Tail(ws))

rebuildWallSpatialIndex(ws, cw) ==
    LET withWalls == IndexWalls(EmptyIndex, ws) IN
    IF cw.isNull THEN withWalls ELSE IndexAll(withWalls, cw.pts)

(* The offsets of the circular brush, in the order the two loops visit them *)
BrushRadius == (wallBrushSize * 3) \div 2
BrushSteps == ((2 * BrushRadius) \div wallBrushSize) + 1
BrushOffset(k) == (k - 1) * wallBrushSize - BrushRadius

RECURSIVE BrushPoints(_, _, _)
BrushPoints(x, y, k) ==
    IF k > BrushSteps * BrushSteps THEN << >>
    ELSE LET ox == BrushOffset(((k - 1) \div BrushSteps) + 1)
             oy == BrushOffset(((k - 1) % BrushSteps) + 1)
             rest == BrushPoints(x, y, k + 1)
         IN IF ox * ox + oy * oy <= BrushRadius * BrushRadius
              THEN << [x |-> x + ox, y |-> y + oy, size |-> wallBrushSize] >> \o rest
              ELSE rest

(* addWallPoint: the new currentWall.pts and the new index *)
addWallPoint(x, y, pts, idx) ==
    [pts |-> pts \o BrushPoints(x, y, 1),
     idx |-> IndexAll(idx, BrushPoints(x, y, 1))]

RECURSIVE Flatten(_)
Flatten(ws) == IF ws = << >> THEN << >> ELSE Head(ws) \o Flatten(Tail(ws))

SeqToSet(s) == { s[k] : k \in DOMAIN s }

AbsVal(n) == IF n < 0 THEN -n ELSE n
CeilDiv(a, b) == (a + b - 1) \div b
MaxOf(a, b) == IF a >= b THEN a ELSE b
MinOf(a, b) == IF a <= b THEN a ELSE b

(* getWallPointsNearPosition *)
getWallPointsNearPositionOwnCell(idx, x, y, radius) ==
    LET cx == x \div gridCellSize
        cy == y \div gridCellSize
    IN UNION { SeqToSet(idx[key]) :
                 key \in { k \in DOMAIN idx : k[1] = cx /\ k[2] = cy } }

getWallPointsNearPosition(idx, x, y, radius) ==
    LET cellRadius == CeilDiv(radius, gridCellSize)
        cx == x \div gridCellSize
        cy == y \div gridCellSize
    IN UNION { SeqToSet(idx[key]) :
                 key \in { k \in DOMAIN idx :
                             /\ AbsVal(k[1] - cx) <= cellRadius
                             /\ AbsVal(k[2] - cy) <= cellRadius } }

(* distanceSquared < (point.size / 2 + radius * 0.6)^2, times 100 *)
Touches(p, x, y, radius) ==
    100 * ((x - p.x) * (x - p.x) + (y - p.y) * (y - p.y))
        < (5 * p.size + 6 * radius) * (5 * p.size + 6 * radius)

(* isPointNearWall before the spatial index: every point of every wall, then *)
(* the wall being drawn                                                      *)
isPointNearWallAllPoints(ws, cw, x, y, radius) ==
    \/ \E w \in DOMAIN ws : \E p \in DOMAIN ws[w] :
           Touches(ws[w][p], x, y, radius)
    \/ /\ ~cw.isNull
       /\ \E k \in DOMAIN cw.pts : Touches(cw.pts[k], x, y, radius)

isPointNearWall(idx, cw, x, y, radius) ==
    \/ \E p \in getWallPointsNearPosition(idx, x, y, radius + wallBrushSize) :
           Touches(p, x, y, radius)
    \/ /\ ~cw.isNull
       /\ \E k \in DOMAIN cw.pts : Touches(cw.pts[k], x, y, radius)

-----------------------------------------------------------------------------
(* Boid: constants.  The constructor runs with isPredator = false, so every  *)
(* new agent gets the prey values; initBoids, spawnBoid and reproduce then   *)
(* overwrite the same fields of a predator.                                  *)

size == 5
collisionRadius == (size * 8) \div 10
wallDetectionRadius == 20
preyDetectionRadius == 150
healthGainPerKill == 4500
minSpeed == 100
cursorRadius == 20
restitution == 6
huntingCooldownFrames == 30
initialReproductionCooldown == 100

initialHealth(isPredator) == IF isPredator THEN 8000 ELSE 7500
maxHealth(b) == IF b.isPredator THEN 15000 ELSE 10000
healthDecayRate(b) == IF b.isPredator THEN 12 ELSE 3
foodGenerationRate(b) == IF b.isPredator THEN 0 ELSE 4
reproductionThreshold(b) == IF b.isPredator THEN 12000 ELSE 8500
reproductionCost(b) == IF b.isPredator THEN 6000 ELSE 5000
reproductionCooldownShort(b) == IF b.isPredator THEN 299 ELSE 149
reproductionCooldownAfter(b) == IF b.isPredator THEN 300 ELSE 150

(* new Boid(x, y, canvas) followed by the species overrides *)
NewBoid(id, x, y, isPredator) ==
    [id |-> id, isPredator |-> isPredator, x |-> x, y |-> y,
     health |-> initialHealth(isPredator),
     reproductionCooldown |-> initialReproductionCooldown,
     huntingCooldown |-> 0,
     readyToReproduce |-> FALSE,
     killed |-> FALSE,
     acceleration |-> "zero",
     isNaN |-> FALSE]

(* Boid.updateHealth with timeScale = 1 *)
updateHealthNoKill(b) ==
    LET h1 == b.health - healthDecayRate(b)
        h2 == IF ~b.isPredator THEN h1 + foodGenerationRate(b) ELSE h1
        h3 == IF h2 > maxHealth(b) THEN maxHealth(b) ELSE h2
    IN [b EXCEPT !.health = h3]

updateHealthNoFood(b) ==
    LET h1 == b.health - healthDecayRate(b)
        h3 == IF h1 > maxHealth(b) THEN maxHealth(b) ELSE h1
    IN [b EXCEPT !.health = h3,
                 !.killed = IF h3 <= 0 THEN TRUE ELSE b.killed]

updateHealth(b) ==
    LET h1 == b.health - healthDecayRate(b)
        h2 == IF ~b.isPredator THEN h1 + foodGenerationRate(b) ELSE h1
        h3 == IF h2 > maxHealth(b) THEN maxHealth(b) ELSE h2
    IN [b EXCEPT !.health = h3,
                 !.killed = IF h3 <= 0 THEN TRUE ELSE b.killed]

(* Boid.checkReproduction *)
checkReproductionNoCooldown(b) ==
    IF b.health >= reproductionThreshold(b) /\ ~b.readyToReproduce
      THEN [b EXCEPT !.readyToReproduce = TRUE]
    ELSE IF b.health < reproductionThreshold(b)
      THEN [b EXCEPT !.readyToReproduce = FALSE]
    ELSE b

checkReproduction(b) ==
    IF /\ b.reproductionCooldown <= 0
       /\ b.health >= reproductionThreshold(b)
       /\ ~b.readyToReproduce
      THEN [b EXCEPT !.readyToReproduce = TRUE]
    ELSE IF b.health < reproductionThreshold(b)
      THEN [b EXCEPT !.readyToReproduce = FALSE]
    ELSE b

(* Boid.edges *)
edges(b, cv) ==
    LET x1 == IF b.x > cv[1] THEN 0 ELSE b.x
        x2 == IF x1 < 0 THEN cv[1] ELSE x1
        y1 == IF b.y > cv[2] THEN 0 ELSE b.y
        y2 == IF y1 < 0 THEN cv[2] ELSE y1
    IN IF b.isNaN THEN b ELSE [b EXCEPT !.x = x2, !.y = y2]

(* Boid.checkWallCollision: the next position, then the points on the way   *)
(* to it when the move is longer than the collision radius                  *)
checkWallCollision(b, nx, ny, idx, cw) ==
    \/ isPointNearWall(idx, cw, nx, ny, collisionRadius)
    \/ LET dx == nx - b.x
           dy == ny - b.y
           moveDistSq == dx * dx + dy * dy
           steps == CeilDiv(2 * (AbsVal(dx) + AbsVal(dy)), collisionRadius)
       IN /\ moveDistSq > collisionRadius * collisionRadius
          /\ \E k \in 1 .. (steps - 1) :
                isPointNearWall(idx, cw, b.x + (dx * k) \div steps,
                                b.y + (dy * k) \div steps, collisionRadius)

(* Math.sqrt, rounded down *)
RECURSIVE SqrtSearch(_, _, _)
SqrtSearch(n, lo, hi) ==
    IF lo >= hi THEN lo
    ELSE LET mid == (lo + hi + 1) \div 2
         IN IF mid * mid <= n THEN SqrtSearch(n, mid, hi)
                              ELSE SqrtSearch(n, lo, mid - 1)

ISqrt(n) == SqrtSearch(n, 0, MinOf(n, 46340))

(* a / b rounded toward zero, b > 0 *)
Quot(a, b) == IF a < 0 THEN -((-a) \div b) ELSE a \div b

(* getWallPointsNearPosition as the array it returns: the cells of the       *)
(* square column by column, the points of a cell in insertion order          *)
RECURSIVE NearbyPoints(_, _, _, _, _)
NearbyPoints(idx, cx, cy, cellRadius, k) ==
    LET side == 2 * cellRadius + 1
        key == << cx + (k \div side) - cellRadius, cy + (k % side) - cellRadius >>
    IN IF k >= side * side THEN << >>
       ELSE (IF key \in DOMAIN idx THEN idx[key] ELSE << >>)
              \o NearbyPoints(idx, cx, cy, cellRadius, k + 1)

(* The two loops of getWallNormal.  best.d is closestDistance (-1 stands     *)
(* for Infinity), best.n the normal in thousandths.                          *)
RECURSIVE ClosestNormal(_, _, _, _)
ClosestNormal(pts, x, y, best) ==
    IF pts = << >> THEN best
    ELSE LET dx == x - Head(pts).x
             dy == y - Head(pts).y
             distanceSquared == dx * dx + dy * dy
             distance == ISqrt(distanceSquared * 1000000)
             closer == best.d < 0 \/ distanceSquared < best.d
             next == IF ~closer THEN best
                     ELSE IF distance > 0
                       THEN [d |-> distanceSquared,
                             n |-> << Quot(dx * 1000000, distance),
                                      Quot(dy * 1000000, distance) >>]
                     ELSE [best EXCEPT !.d = distanceSquared]
         IN ClosestNormal(Tail(pts), x, y, next)

(* Simulation.getWallNormal, in thousandths *)
getWallNormal(idx, cw, x, y) ==
    LET nearbyPoints == NearbyPoints(idx, x \div gridCellSize, y \div gridCellSize,
                                     CeilDiv(50, gridCellSize), 0)
        indexed == ClosestNormal(nearbyPoints, x, y, [d |-> -1, n |-> <<0, 0>>])
    IN IF cw.isNull THEN indexed.n
       ELSE ClosestNormal(cw.pts, x, y, indexed).n

(* Boid.handleWallCollision on the velocity: v in hundredths of a pixel a    *)
(* tick, normal in thousandths, restitution in tenths                        *)
handleWallCollisionNoFlip(v, normal) ==
    LET bx == Quot(v[1] * restitution, 10)
        by == Quot(v[2] * restitution, 10)
        speed == ISqrt(bx * bx + by * by)
    IN IF speed < minSpeed
         THEN << Quot(bx * minSpeed, speed), Quot(by * minSpeed, speed) >>
         ELSE << bx, by >>

handleWallCollision(v, normal) ==
    LET dotProduct == v[1] * normal[1] + v[2] * normal[2]
        rx == v[1] - Quot(2 * dotProduct * normal[1], 1000000)
        ry == v[2] - Quot(2 * dotProduct * normal[2], 1000000)
        bx == Quot(rx * restitution, 10)
        by == Quot(ry * restitution, 10)
        speed == ISqrt(bx * bx + by * by)
    IN IF speed < minSpeed
         THEN << Quot(bx * minSpeed, speed), Quot(by * minSpeed, speed) >>
         ELSE << bx, by >>

(* Boid.update(1.0): mv is the velocity the steering forces produce.  On a   *)
(* wall collision the agent is held at its position (the nudge of a tenth    *)
(* of the reflected velocity is below one pixel).                            *)
update(b, mv, cv, idx, cw) ==
    LET nx == b.x + mv[1]
        ny == b.y + mv[2]
        held == IF b.isNaN \/ b.acceleration = "NaN"
                  THEN [b EXCEPT !.isNaN = TRUE]
                ELSE IF checkWallCollision(b, nx, ny, idx, cw)
                  THEN b
                  ELSE [b EXCEPT !.x = nx, !.y = ny]
        moved == [held EXCEPT !.acceleration = "zero"]
        wrapped == edges(moved, cv)
        cooled == [wrapped EXCEPT
                     !.huntingCooldown = IF @ > 0 THEN @ - 1 ELSE @,
                     !.reproductionCooldown = IF @ > 0 THEN @ - 1 ELSE @]
    IN checkReproduction(updateHealth(cooled))

DistSq(ax, ay, bx, by) == (ax - bx) * (ax - bx) + (ay - by) * (ay - by)

(* Boid.checkPreyCollision: predator bs[i] against prey bs[j] *)
checkPreyCollisionShortCooldown(bs, i, j, distSquared) ==
    IF ~bs[i].isPredator \/ bs[i].huntingCooldown > 0 THEN bs
    ELSE IF distSquared <= (size + size) * (size + size)
      THEN [bs EXCEPT ![j].killed = TRUE,
                      ![i].health = MinOf(bs[i].health + healthGainPerKill,
                                          maxHealth(bs[i])),
                      ![i].huntingCooldown = huntingCooldownFrames - 1]
    ELSE bs

checkPreyCollision(bs, i, j, distSquared) ==
    IF ~bs[i].isPredator \/ bs[i].huntingCooldown > 0 THEN bs
    ELSE IF distSquared <= (size + size) * (size + size)
      THEN [bs EXCEPT ![j].killed = TRUE,
                      ![i].health = MinOf(bs[i].health + healthGainPerKill,
                                          maxHealth(bs[i])),
                      ![i].huntingCooldown = huntingCooldownFrames]
    ELSE bs

(* Boid.chasePrey: the nearest prey within preyDetectionRadius, the first    *)
(* of the collection among equally near ones                                 *)
PreyInRange(bs, i) ==
    { j \in DOMAIN bs :
        /\ j # i
        /\ ~bs[j].isPredator
        /\ ~bs[i].isNaN /\ ~bs[j].isNaN
        /\ DistSq(bs[j].x, bs[j].y, bs[i].x, bs[i].y)
             < preyDetectionRadius * preyDetectionRadius }

NearestPrey(bs, i) ==
    CHOOSE j \in PreyInRange(bs, i) :
        \A k \in PreyInRange(bs, i) :
            LET dj == DistSq(bs[j].x, bs[j].y, bs[i].x, bs[i].y)
                dk == DistSq(bs[k].x, bs[k].y, bs[i].x, bs[i].y)
            IN dj < dk \/ (dj = dk /\ j <= k)

(* the prey chasePrey finds (nearestPrey), 0 for none *)
chaseTarget(bs, i) ==
    IF ~bs[i].isPredator \/ bs[i].huntingCooldown > 0 THEN 0
    ELSE IF PreyInRange(bs, i) = {} THEN 0
    ELSE NearestPrey(bs, i)

(* applyForce leaves an acceleration that is written "steered": the sum of   *)
(* the forces applied since the last reset.  A sum with a NaN term is NaN.   *)
Steered(acceleration) == IF acceleration = "NaN" THEN "NaN" ELSE "steered"

(* Boid.avoidCursor: nothing while the cursor is off the canvas, farther     *)
(* than 200 or not within 1.5 cursorRadius; else the force                   *)
(* (-dx / distToCursor, -dy / distToCursor) times a finite magnitude, which  *)
(* is (-0 / 0, -0 / 0) = (NaN, NaN) at distance 0.  Every comparison with    *)
(* the NaN distance of an agent at a NaN position is false.                  *)
avoidCursor(b, cursor) ==
    LET distSquared == DistSq(cursor[1], cursor[2], b.x, b.y)
        reach == (3 * cursorRadius) \div 2
    IN IF cursor[1] < 0 \/ cursor[2] < 0 \/ b.isNaN THEN b
       ELSE IF distSquared > 200 * 200 THEN b
       ELSE IF distSquared < reach * reach
         THEN [b EXCEPT !.acceleration =
                          IF distSquared = 0 THEN "NaN" ELSE Steered(@)]
       ELSE b

chasePrey(bs, i) ==
    LET j == chaseTarget(bs, i)
    IN IF j = 0 THEN bs
       ELSE checkPreyCollision([bs EXCEPT ![i].acceleration = Steered(@)], i, j,
                DistSq(bs[j].x, bs[j].y, bs[i].x, bs[i].y))

(* Boid.flock: separation, alignment, cohesion and fleeing only add forces;  *)
(* the chase of a predator also kills                                        *)
flock(bs, i) ==
    IF Len(bs) > 1 /\ bs[i].isPredator THEN chasePrey(bs, i) ELSE bs

(* Boid.reproduce: the parent after the call and the offspring; off is the   *)
(* random offset of the newborn                                              *)
reproduceKeepsReady(b, id, off) ==
    [parent |-> [b EXCEPT !.health = b.health - reproductionCost(b),
                          !.reproductionCooldown = reproductionCooldownAfter(b)],
     offspring |-> << [NewBoid(id, b.x + off[1], b.y + off[2], b.isPredator)
                           EXCEPT !.isNaN = b.isNaN] >>]

reproduce(b, id, off) ==
    IF ~b.readyToReproduce
      THEN [parent |-> b, offspring |-> << >>]
      ELSE [parent |-> [b EXCEPT !.health = b.health - reproductionCost(b),
                                 !.readyToReproduce = FALSE,
                                 !.reproductionCooldown = reproductionCooldownAfter(b)],
            offspring |-> << [NewBoid(id, b.x + off[1], b.y + off[2], b.isPredator)
                           EXCEPT !.isNaN = b.isNaN] >>]

-----------------------------------------------------------------------------
(* Simulation.applyPopulationControls *)

maxBoids == 300
audioTriggerInterval == 8
(* Times are in thirds of a millisecond: timeStep = 1000 / targetFPS ms with *)
(* targetFPS = 60, maxFrameTime = 200 ms                                     *)
timeStep == 50
maxFrameTime == 600
minPredators == 3
(* minPreyRatio = 0.6 and maxPredatorRatio = 0.3, in tenths *)
minPreyRatio10 == 6
maxPredatorRatio10 == 3

SetMin(S) == CHOOSE m \in S : \A n \in S : m <= n

(* Array.prototype.sort((a, b) => a.health - b.health): stable *)
RECURSIVE SortLevels(_, _)
SortLevels(seq, levels) ==
    IF levels = {} THEN << >>
    ELSE LET m == SetMin(levels)
             AtLevel(b) == b.health = m
         IN SelectSeq(seq, AtLevel) \o SortLevels(seq, levels \ {m})

SortByHealthUnsorted(seq) == seq

SortByHealth(seq) == SortLevels(seq, { seq[k].health : k \in DOMAIN seq })

IsPredator(b) == b.isPredator
IsPrey(b) == ~b.isPredator
NotKilled(b) == ~b.killed

(* The branch that decides predatorsToRemove for a population over          *)
(* maxBoids: too many predators, too few prey, or proportional.  The ratios  *)
(* are compared in integers: predatorCount / totalBoids > 0.3 is             *)
(* 10 * predatorCount > 3 * totalBoids.                                      *)
cullBranchPreyShare8(predatorCount, preyCount) ==
    LET totalBoids == predatorCount + preyCount
    IN IF 10 * predatorCount > maxPredatorRatio10 * totalBoids
         THEN "predators"
       ELSE IF /\ 10 * preyCount < 8 * totalBoids
               /\ predatorCount > minPredators
         THEN "prey"
       ELSE "proportional"

cullBranch(predatorCount, preyCount) ==
    LET totalBoids == predatorCount + preyCount
    IN IF 10 * predatorCount > maxPredatorRatio10 * totalBoids
         THEN "predators"
       ELSE IF /\ 10 * preyCount < minPreyRatio10 * totalBoids
               /\ predatorCount > minPredators
         THEN "prey"
       ELSE "proportional"

(* predatorsToRemove, as the three branches compute it *)
predatorsToRemoveUncapped(predatorCount, preyCount) ==
    LET totalBoids == predatorCount + preyCount
        excessBoids == totalBoids - maxBoids
        branch == cullBranch(predatorCount, preyCount)
    IN IF branch = "predators"
         THEN MinOf(excessBoids,
                    predatorCount
                      - MaxOf(minPredators,
                              (totalBoids * maxPredatorRatio10) \div 10))
       ELSE IF branch = "prey"
         THEN MinOf(excessBoids, predatorCount - minPredators)
       ELSE (excessBoids * predatorCount) \div totalBoids

predatorsToRemove(predatorCount, preyCount) ==
    LET totalBoids == predatorCount + preyCount
        excessBoids == totalBoids - maxBoids
        branch == cullBranch(predatorCount, preyCount)
    IN IF branch = "predators"
         THEN MinOf(excessBoids,
                    predatorCount
                      - MaxOf(minPredators,
                              (totalBoids * maxPredatorRatio10) \div 10))
       ELSE IF branch = "prey"
         THEN MinOf(excessBoids, predatorCount - minPredators)
       ELSE MinOf((excessBoids * predatorCount) \div totalBoids,
                  predatorCount - minPredators)

(* The ids of the first n agents of a sorted list *)
Prefix(sorted, n) ==
    { sorted[k].id : k \in 1 .. MinOf(n, Len(sorted)) }

applyPopulationControls(bs) ==
    LET predatorCount == Len(SelectSeq(bs, IsPredator))
        preyCount == Len(SelectSeq(bs, IsPrey))
        totalBoids == predatorCount + preyCount
    IN IF totalBoids > maxBoids
         THEN LET excessBoids == totalBoids - maxBoids
                  pRemove == predatorsToRemove(predatorCount, preyCount)
                  qRemove == excessBoids - pRemove
                  culledPredators ==
                      IF pRemove > 0
                        THEN Prefix(SortByHealth(SelectSeq(bs, IsPredator)), pRemove)
                        ELSE {}
                  culledPrey ==
                      IF qRemove > 0
                        THEN Prefix(SortByHealth(SelectSeq(bs, IsPrey)), qRemove)
                        ELSE {}
                  Survives(b) ==
                      ~b.killed /\ b.id \notin (culledPredators \cup culledPrey)
              IN SelectSeq(bs, Survives)
         ELSE bs

-----------------------------------------------------------------------------
(* Erasing *)

(* Simulation.eraseBoids *)
eraseBoids(bs, x, y, radiusSquared) ==
    LET Outside(b) == ~b.isNaN /\ DistSq(b.x, b.y, x, y) > radiusSquared
    IN SelectSeq(bs, Outside)

(* Simulation.eraseWallsAt: walls, index and agents after the call and the   *)
(* value it returns                                                          *)
eraseWallsAtWallsOnly(ws, cw, idx, bs, x, y) ==
    LET eraseRadiusSquared == eraserSize * eraserSize
        Keep(p) == DistSq(p.x, p.y, x, y) > eraseRadiusSquared
        NonEmpty(w) == Len(w) > 0
        filtered == [w \in DOMAIN ws |-> SelectSeq(ws[w], Keep)]
        wallsModified == \E w \in DOMAIN ws : Len(filtered[w]) # Len(ws[w])
        kept == IF wallsModified THEN SelectSeq(filtered, NonEmpty) ELSE filtered
        left == eraseBoids(bs, x, y, eraseRadiusSquared)
    IN [walls |-> kept,
        idx |-> IF wallsModified THEN rebuildWallSpatialIndex(kept, cw) ELSE idx,
        boids |-> left,
        ret |-> wallsModified]

eraseWallsAtNoRebuild(ws, cw, idx, bs, x, y) ==
    LET eraseRadiusSquared == eraserSize * eraserSize
        Keep(p) == DistSq(p.x, p.y, x, y) > eraseRadiusSquared
        NonEmpty(w) == Len(w) > 0
        filtered == [w \in DOMAIN ws |-> SelectSeq(ws[w], Keep)]
        wallsModified == \E w \in DOMAIN ws : Len(filtered[w]) # Len(ws[w])
        kept == IF wallsModified THEN SelectSeq(filtered, NonEmpty) ELSE filtered
        left == eraseBoids(bs, x, y, eraseRadiusSquared)
    IN [walls |-> kept, idx |-> idx, boids |-> left,
        ret |-> wallsModified \/ Len(left) < Len(bs)]

eraseWallsAt(ws, cw, idx, bs, x, y) ==
    LET eraseRadiusSquared == eraserSize * eraserSize
        Keep(p) == DistSq(p.x, p.y, x, y) > eraseRadiusSquared
        NonEmpty(w) == Len(w) > 0
        filtered == [w \in DOMAIN ws |-> SelectSeq(ws[w], Keep)]
        wallsModified == \E w \in DOMAIN ws : Len(filtered[w]) # Len(ws[w])
        kept == IF wallsModified THEN SelectSeq(filtered, NonEmpty) ELSE filtered
        left == eraseBoids(bs, x, y, eraseRadiusSquared)
    IN [walls |-> kept,
        idx |-> IF wallsModified THEN rebuildWallSpatialIndex(kept, cw) ELSE idx,
        boids |-> left,
        ret |-> wallsModified \/ Len(left) < Len(bs)]

(* The interpolation of a drag from (x0, y0) by (dx, dy): the positions      *)
(* i = 1 .. steps of the loop.  distance is sqrt(dx^2 + dy^2) of a drag      *)
(* along one axis.                                                           *)
DragDistance(dx, dy) == AbsVal(dx) + AbsVal(dy)
DragSteps(dx, dy) == MaxOf(CeilDiv(DragDistance(dx, dy), minDrawDistance), 1)
DragPos(x0, y0, dx, dy, i) ==
    << x0 + (dx * i) \div DragSteps(dx, dy), y0 + (dy * i) \div DragSteps(dx, dy) >>

(* for (i = 1; i <= steps; i++) addWallPoint(interpX, interpY) *)
RECURSIVE drawSteps(_, _, _, _, _, _, _)
drawSteps(pts, idx, x0, y0, dx, dy, i) ==
    IF i > DragSteps(dx, dy) THEN [pts |-> pts, idx |-> idx]
    ELSE LET pos == DragPos(x0, y0, dx, dy, i)
             added == addWallPoint(pos[1], pos[2], pts, idx)
         IN drawSteps(added.pts, added.idx, x0, y0, dx, dy, i + 1)

(* for (i = 1; i <= steps; i++) eraseWallsAt(interpX, interpY) *)
RECURSIVE eraseSteps(_, _, _, _, _, _, _)
eraseSteps(st, cw, x0, y0, dx, dy, i) ==
    IF i > DragSteps(dx, dy) THEN st
    ELSE LET pos == DragPos(x0, y0, dx, dy, i)
             e == eraseWallsAt(st.walls, cw, st.idx, st.boids, pos[1], pos[2])
         IN eraseSteps([e EXCEPT !.ret = st.ret \/ e.ret],
                       cw, x0, y0, dx, dy, i + 1)

(* Simulation.spawnBoid: the new agent, after its update(1.0) *)
spawnBoid(id, x, y, isPredator, mv, cv, idx, cw) ==
    update(NewBoid(id, x, y, isPredator), mv, cv, idx, cw)

(* Simulation.initBoids: count agents at the random positions places, the    *)
(* prey first; Math.round(count * 0.15) of them are predators                *)
RoundedPredators(count) == (15 * count + 50) \div 100

initBoids(count, places, firstId) ==
    [k \in 1 .. count |->
        NewBoid(firstId + k - 1, places[k][1], places[k][2],
                k > count - RoundedPredators(count))]

-----------------------------------------------------------------------------
(* History of the first stroke drawn on the empty canvas: the positions the  *)
(* brush was put down at, the points retired on release, and where the       *)
(* eraser has been applied since.                                            *)

RtInit == [phase |-> "idle", pts |-> {}, path |-> {}, erasedAt |-> {}]

RtDown(c) ==
    IF rt.phase = "idle"
      THEN [rt EXCEPT !.phase = "drawing", !.path = {c}]
      ELSE [rt EXCEPT !.phase = "off"]

RtDrag(x0, y0, dx, dy) ==
    IF rt.phase = "drawing"
      THEN [rt EXCEPT !.path = @ \cup { DragPos(x0, y0, dx, dy, i) :
                                          i \in 1 .. DragSteps(dx, dy) }]
      ELSE rt

RtRelease ==
    IF rt.phase = "drawing"
      THEN [rt EXCEPT !.phase = "drawn", !.pts = SeqToSet(currentWall.pts)]
      ELSE rt

RtMode(mode) ==
    IF rt.phase = "drawing" /\ mode # cursorMode
      THEN [rt EXCEPT !.phase = "off"]
      ELSE rt

RtErase(positions) ==
    IF rt.phase = "drawn"
      THEN [rt EXCEPT !.erasedAt = @ \cup positions]
      ELSE rt

RtClear == IF rt.phase = "idle" THEN rt ELSE [rt EXCEPT !.phase = "off"]

(* The record of a handler call: the kind of event ("down" for mousedown    *)
(* and touchstart, "move" for mousemove and touchmove, "release" for the   *)
(* four release events, "eraseWallsAt" for an event that makes one call of  *)
(* eraseWallsAt, "eraseAlong" for a touch drag that makes one call a step), *)
(* the position of an erasure, the value returned                          *)
Op(name, c, ret) == [op |-> name, x |-> c[1], y |-> c[2], ret |-> ret]

-----------------------------------------------------------------------------
(* Input handlers (Simulation.setupDrawing).  Handlers run between ticks.    *)

(* A handler runs between two ticks and between two animation frames *)
Control ==
    /\ pc = "idle"
    /\ loop \in { "none", "wait" }
    /\ events < MaxEvents
    /\ events' = events + 1

Handler == Control /\ UNCHANGED loopVars

(* case ERASER of the pointer-down and mouse-move handlers *)
EraseAt(name, c, ldp) ==
    LET e == eraseWallsAt(walls, currentWall, wallSpatialIndex, boids, c[1], c[2])
    IN /\ walls' = e.walls
       /\ wallSpatialIndex' = e.idx
       /\ boids' = e.boids
       /\ lastDrawPoint' = ldp
       /\ rt' = RtErase({c})
       /\ lastOp' = Op("eraseWallsAt", c, e.ret)
       /\ UNCHANGED << currentWall, nextId >>

(* case BOID / PREDATOR *)
Spawn(name, c, mv) ==
    /\ Len(boids) < MaxPop
    /\ boids' = Append(boids, spawnBoid(nextId, c[1], c[2], cursorMode = "PREDATOR",
                                        mv, canvas, wallSpatialIndex, currentWall))
    /\ nextId' = nextId + 1
    /\ lastOp' = Op(name, <<0, 0>>, TRUE)
    /\ UNCHANGED << wallVars, rt >>

(* case WALL of the pointer-down handlers *)
StartStroke(name, c) ==
    LET added == addWallPoint(c[1], c[2], << >>, wallSpatialIndex)
    IN /\ currentWall' = [isNull |-> FALSE, pts |-> added.pts]
       /\ wallSpatialIndex' = added.idx
       /\ lastDrawPoint' = [isNull |-> FALSE, x |-> c[1], y |-> c[2]]
       /\ rt' = RtDown(c)
       /\ lastOp' = Op(name, <<0, 0>>, TRUE)
       /\ UNCHANGED << walls, boids, nextId >>

Nothing(name, c) ==
    /\ lastOp' = Op(name, <<0, 0>>, FALSE)
    /\ UNCHANGED << wallVars, boids, nextId, rt >>

(* case WALL of the move handlers *)
ExtendStroke(name, c) ==
    IF currentWall.isNull THEN Nothing(name, c)
    ELSE LET dx == c[1] - lastDrawPoint.x
             dy == c[2] - lastDrawPoint.y
         IN IF DragDistance(dx, dy) >= minDrawDistance
              THEN LET drawn == drawSteps(currentWall.pts, wallSpatialIndex,
                                          lastDrawPoint.x, lastDrawPoint.y, dx, dy, 1)
                   IN /\ Len(drawn.pts) <= MaxStrokePts
                      /\ currentWall' = [isNull |-> FALSE, pts |-> drawn.pts]
                      /\ wallSpatialIndex' = drawn.idx
                      /\ lastDrawPoint' = [isNull |-> FALSE, x |-> c[1], y |-> c[2]]
                      /\ rt' = RtDrag(lastDrawPoint.x, lastDrawPoint.y, dx, dy)
                      /\ lastOp' = Op(name, <<0, 0>>, TRUE)
                      /\ UNCHANGED << walls, boids, nextId >>
              ELSE Nothing(name, c)

MouseDown(c) ==
    /\ Handler
    /\ IF cursorMode = "ERASER" THEN EraseAt("down", c, lastDrawPoint)
       ELSE IF cursorMode = "WALL" THEN StartStroke("down", c)
       ELSE \E mv \in Moves : Spawn("down", c, mv)
    /\ UNCHANGED << cursorMode, canvas, tickVars >>
    /\ UNCHANGED cursorVars

(* buttons: e.buttons > 0; open: the 100 ms spawn throttle has elapsed *)
MouseMove(c, buttons, open) ==
    /\ Handler
    /\ IF ~buttons THEN Nothing("move", c)
       ELSE IF cursorMode = "ERASER" THEN EraseAt("move", c, lastDrawPoint)
       ELSE IF cursorMode = "WALL" THEN ExtendStroke("move", c)
       ELSE IF open THEN \E mv \in Moves : Spawn("move", c, mv)
       ELSE Nothing("move", c)
    /\ UNCHANGED << cursorMode, canvas, tickVars >>
    /\ UNCHANGED cursorVars

(* mouseup, mouseleave, touchend and touchcancel have the same body *)
Release ==
    /\ Handler
    /\ IF cursorMode = "WALL" /\ ~currentWall.isNull
         THEN /\ walls' = IF Len(currentWall.pts) > 1
                            THEN Append(walls, currentWall.pts) ELSE walls
              /\ wallSpatialIndex' =
                     IF Len(currentWall.pts) > 1
                       THEN rebuildWallSpatialIndex(Append(walls, currentWall.pts),
                                                    currentWall)
                       ELSE wallSpatialIndex
              /\ currentWall' = NullWall
              /\ lastDrawPoint' = NullPoint
              /\ rt' = RtRelease
              /\ lastOp' = Op("release", <<0, 0>>, TRUE)
         ELSE /\ lastOp' = Op("release", <<0, 0>>, FALSE)
              /\ UNCHANGED << wallVars, rt >>
    /\ UNCHANGED << boids, nextId, cursorMode, canvas, tickVars >>
    /\ UNCHANGED cursorVars

MouseUp == Release
MouseLeave == Release
TouchEnd == Release
TouchCancel == Release

TouchStart(c) ==
    /\ Handler
    /\ IF cursorMode = "ERASER"
         THEN EraseAt("down", c, [isNull |-> FALSE, x |-> c[1], y |-> c[2]])
       ELSE IF cursorMode = "WALL" THEN StartStroke("down", c)
       ELSE \E mv \in Moves : Spawn("down", c, mv)
    /\ UNCHANGED << cursorMode, canvas, tickVars >>
    /\ UNCHANGED cursorVars

(* case ERASER of touchmove: erase along the drag *)
EraseAlong(name, c) ==
    LET from == IF lastDrawPoint.isNull
                  THEN [isNull |-> FALSE, x |-> c[1], y |-> c[2]]
                  ELSE lastDrawPoint
        dx == c[1] - from.x
        dy == c[2] - from.y
        st0 == [walls |-> walls, idx |-> wallSpatialIndex, boids |-> boids,
                ret |-> FALSE]
    IN IF DragDistance(dx, dy) >= minDrawDistance
         THEN LET e == eraseSteps(st0, currentWall, from.x, from.y, dx, dy, 1)
              IN /\ walls' = e.walls
                 /\ wallSpatialIndex' = e.idx
                 /\ boids' = e.boids
                 /\ lastDrawPoint' = [isNull |-> FALSE, x |-> c[1], y |-> c[2]]
                 /\ rt' = RtErase({ DragPos(from.x, from.y, dx, dy, i) :
                                      i \in 1 .. DragSteps(dx, dy) })
                 /\ lastOp' = Op("eraseAlong", c, e.ret)
                 /\ UNCHANGED << currentWall, nextId >>
         ELSE /\ lastDrawPoint' = from
              /\ lastOp' = Op(name, <<0, 0>>, FALSE)
              /\ UNCHANGED << walls, currentWall, wallSpatialIndex, boids, nextId, rt >>

TouchMove(c, open) ==
    /\ Handler
    /\ IF cursorMode = "ERASER" THEN EraseAlong("move", c)
       ELSE IF cursorMode = "WALL" THEN ExtendStroke("move", c)
       ELSE IF open THEN \E mv \in Moves : Spawn("move", c, mv)
       ELSE Nothing("move", c)
    /\ UNCHANGED << cursorMode, canvas, tickVars >>
    /\ UNCHANGED cursorVars

(* Simulation.setCursorMode *)
SetCursorMode(mode) ==
    /\ Handler
    /\ cursorMode' = IF mode \in CURSOR_MODES THEN mode ELSE cursorMode
    /\ rt' = RtMode(mode)
    /\ lastOp' = Op("setCursorMode", <<0, 0>>, mode \in CURSOR_MODES)
    /\ UNCHANGED << wallVars, boids, nextId, canvas, tickVars >>
    /\ UNCHANGED cursorVars

(* Simulation.clearWalls *)
ClearWalls ==
    /\ Handler
    /\ walls' = << >>
    /\ wallSpatialIndex' = EmptyIndex
    /\ rt' = RtClear
    /\ lastOp' = Op("clearWalls", <<0, 0>>, TRUE)
    /\ UNCHANGED << currentWall, lastDrawPoint, boids, nextId, cursorMode,
                    canvas, tickVars >>
    /\ UNCHANGED cursorVars

(* Simulation.handleResize *)
HandleResize(dims) ==
    /\ Handler
    /\ canvas' = dims
    /\ boids' = [k \in DOMAIN boids |->
                   [boids[k] EXCEPT
                      !.x = IF @ > dims[1] THEN dims[1] - 10 ELSE @,
                      !.y = IF @ > dims[2] THEN dims[2] - 10 ELSE @]]
    /\ wallSpatialIndex' = rebuildWallSpatialIndex(walls, currentWall)
    /\ lastOp' = Op("handleResize", dims, TRUE)
    /\ UNCHANGED << walls, currentWall, lastDrawPoint, nextId, cursorMode,
                    tickVars, rt >>
    /\ UNCHANGED cursorVars

-----------------------------------------------------------------------------
(* Simulation.update, one tick.  The for-loop over this.boids is one step    *)
(* per agent (UpdateBoid, then UpdateReproduce for the same agent); no       *)
(* handler runs while a tick is in progress.                                 *)

(* Simulation.setupCursorTracking: the listeners that follow the pointer.    *)
(* They are registered next to those of setupDrawing and touch only           *)
(* cursorPosition and touchActive.                                           *)
Track(name, c, touch) ==
    /\ Handler
    /\ cursorPosition' = c
    /\ touchActive' = touch
    /\ lastOp' = Op(name, c, TRUE)
    /\ UNCHANGED << boids, nextId, cursorMode, wallVars, canvas, tickVars, rt >>

TrackMouseMove(c) == Track("cursor", c, FALSE)
TrackMouseEnter(c) == Track("cursor", c, FALSE)
TrackTouchStart(c) == Track("cursor", c, TRUE)
TrackTouchMove(c) == Track("cursor", c, TRUE)

TrackMouseLeave ==
    /\ IF touchActive THEN Track("cursor", cursorPosition, touchActive)
                      ELSE Track("cursor", OffCanvas, touchActive)

(* touches: the touches that remain, e.touches *)
TrackTouchEnd(touches) ==
    /\ IF Len(touches) = 0 THEN Track("cursor", OffCanvas, FALSE)
                           ELSE Track("cursor", touches[1], touchActive)

TrackTouchCancel(touches) ==
    /\ IF Len(touches) = 0 THEN Track("cursor", OffCanvas, FALSE)
                           ELSE Track("cursor", cursorPosition, touchActive)

UpdateBeginIgnoresPause ==
    /\ pc = "idle"
    /\ IF loop = "none"
         THEN frame' = frame
         ELSE /\ loop = "ticks"
              /\ accumulatedTime >= timeStep
              /\ frame' = [frame EXCEPT !.ticks = @ + 1]
    /\ pc' = IF boids = << >> THEN "end" ELSE "boid"
    /\ cur' = 1
    /\ killedBoids' = << >>
    /\ newBoids' = << >>
    /\ passIds' = << >>
    /\ UNCHANGED << boids, nextId, cursorMode, wallVars, canvas, ticks, events,
                    lastOp, rt, running, accumulatedTime, audioEnabled,
                    audioReady, audioTriggerCount, loop, frames, draws,
                    boidCount, traceVars >>
    /\ UNCHANGED cursorVars

(* Entry of update.  Where the animation frames are modelled (loop is not   *)
(* "none") it is the test of the while-loop of animate that lets a tick      *)
(* start: this.running and accumulatedTime >= timeStep.                      *)
UpdateBegin ==
    /\ pc = "idle"
    /\ IF loop = "none"
         THEN frame' = frame
         ELSE /\ loop = "ticks"
              /\ running
              /\ accumulatedTime >= timeStep
              /\ frame' = [frame EXCEPT !.ticks = @ + 1]
    /\ pc' = IF boids = << >> THEN "end" ELSE "boid"
    /\ cur' = 1
    /\ killedBoids' = << >>
    /\ newBoids' = << >>
    /\ passIds' = << >>
    /\ UNCHANGED << boids, nextId, cursorMode, wallVars, canvas, ticks, events,
                    lastOp, rt, running, accumulatedTime, audioEnabled,
                    audioReady, audioTriggerCount, loop, frames, draws,
                    boidCount, traceVars >>
    /\ UNCHANGED cursorVars

(* The histories.  A chase is a call of chasePrey that finds a prey, a kill  *)
(* a call of checkPreyCollision that sets huntingCooldown; the tick that is  *)
(* running is ticks + 1.                                                     *)
NoBounce == [hit |-> FALSE, v |-> <<0, 0>>, normal |-> <<0, 0>>, out |-> <<0, 0>>]

Chased(bs, i, tick) ==
    { c \in chases : c[1] # bs[i].id } \cup { << bs[i].id, tick >> }

Killed(bs, after, i, j, tick) ==
    IF after[i].huntingCooldown > bs[i].huntingCooldown
      THEN Append(kills, [tick |-> tick, hunter |-> bs[i].id,
                          target |-> bs[j].id, health |-> after[i].health])
      ELSE kills

Bounced(b, mv, idx, cw) ==
    LET v == << 100 * mv[1], 100 * mv[2] >>
        normal == getWallNormal(idx, cw, b.x, b.y)
    IN IF /\ ~b.isNaN /\ b.acceleration # "NaN"
          /\ checkWallCollision(b, b.x + mv[1], b.y + mv[2], idx, cw)
         THEN [hit |-> TRUE, v |-> v, normal |-> normal,
               out |-> handleWallCollision(v, normal)]
         ELSE bounce

(* A tick outside the animation frames, while fewer than limit have run *)
StartTick(limit) == ticks < limit /\ UpdateBegin

(* avoidCursor, avoidWalls, flock, update(timeScale), the killed check;      *)
(* moves are the velocities the steering forces can produce                  *)
UpdateBoidAt(moves) ==
    /\ pc = "boid"
    /\ \E mv \in moves :
       \E avoided \in { [boids EXCEPT
                            ![cur] = avoidCursor(boids[cur], cursorPosition)] } :
       \E chased \in { flock(avoided, cur) } :
       \E b \in { update(chased[cur], mv, canvas, wallSpatialIndex,
                         currentWall) } :
         LET j == IF Len(boids) > 1 THEN chaseTarget(boids, cur) ELSE 0
         IN /\ boids' = [chased EXCEPT ![cur] = b]
            /\ killedBoids' = IF b.killed THEN Append(killedBoids, b.id)
                                           ELSE killedBoids
            /\ passIds' = Append(passIds, b.id)
            /\ chases' = IF j = 0 THEN chases ELSE Chased(boids, cur, ticks + 1)
            /\ kills' = IF j = 0 THEN kills
                                  ELSE Killed(boids, chased, cur, j, ticks + 1)
            /\ bounce' = Bounced(chased[cur], mv, wallSpatialIndex, currentWall)
    /\ pc' = "repro"
    /\ UNCHANGED << nextId, cursorMode, wallVars, canvas, cur, newBoids, ticks,
                    events, lastOp, rt, loopVars, births >>
    /\ UNCHANGED cursorVars

UpdateBoid == UpdateBoidAt(Moves)

(* The history of births: a call of reproduce that returns an offspring *)
Born(b) ==
    Append(births, [tick |-> ticks + 1, parent |-> b.id,
                    isPredator |-> b.isPredator])

(* if (boid.readyToReproduce) newBoids.push(boid.reproduce()) *)
UpdateReproduceInPlace ==
    /\ pc = "repro"
    /\ \E off \in Offsets :
         LET r == reproduce(boids[cur], nextId, off)
         IN IF boids[cur].readyToReproduce
              THEN /\ boids' = [boids EXCEPT ![cur] = r.parent] \o r.offspring
                   /\ newBoids' = newBoids
                   /\ nextId' = nextId + Len(r.offspring)
                   /\ births' = Born(boids[cur])
              ELSE UNCHANGED << boids, newBoids, nextId, births >>
    /\ cur' = cur + 1
    /\ pc' = IF cur >= Len(boids) THEN "end" ELSE "boid"
    /\ UNCHANGED << cursorMode, wallVars, canvas, killedBoids, passIds, ticks,
                    events, lastOp, rt, loopVars, kills, chases, bounce >>
    /\ UNCHANGED cursorVars

UpdateReproduceAt(offsets) ==
    /\ pc = "repro"
    /\ \E off \in offsets :
         LET r == reproduce(boids[cur], nextId, off)
         IN IF boids[cur].readyToReproduce
              THEN /\ boids' = [boids EXCEPT ![cur] = r.parent]
                   /\ newBoids' = newBoids \o r.offspring
                   /\ nextId' = nextId + Len(r.offspring)
                   /\ births' = Born(boids[cur])
              ELSE UNCHANGED << boids, newBoids, nextId, births >>
    /\ cur' = cur + 1
    /\ pc' = IF cur >= Len(boids) THEN "end" ELSE "boid"
    /\ UNCHANGED << cursorMode, wallVars, canvas, killedBoids, passIds, ticks,
                    events, lastOp, rt, loopVars, kills, chases, bounce >>
    /\ UNCHANGED cursorVars

UpdateReproduce == UpdateReproduceAt(Offsets)

(* The end of update: the killed are filtered out, the newborns appended,    *)
(* the population controls applied                                           *)
RemoveKilled(bs, killedList) ==
    IF Len(killedList) > 0 THEN SelectSeq(bs, NotKilled) ELSE bs

(* A call of the audio engine returns or throws.  playDeathSound is called   *)
(* before the killed are filtered out, processBoids after the population     *)
(* controls, on every audioTriggerInterval-th tick with audio enabled; both  *)
(* return at once while the engine is not initialized.  update and animate   *)
(* catch nothing: an exception leaves update where it was thrown, skips      *)
(* accumulatedTime -= timeStep, draw and requestAnimationFrame.              *)
AudioOutcomes == { "returns", "throws" }

UpdateEnd ==
    /\ pc = "end"
    /\ \E death \in AudioOutcomes : \E process \in AudioOutcomes :
         LET deathCall == Len(killedBoids) > 0 /\ audioEnabled /\ audioReady
             deathThrows == deathCall /\ death = "throws"
             count == IF audioEnabled THEN audioTriggerCount + 1
                                      ELSE audioTriggerCount
             processCall == /\ ~deathThrows
                            /\ audioEnabled /\ audioReady
                            /\ count % audioTriggerInterval = 0
             processThrows == processCall /\ process = "throws"
             escaped == deathThrows \/ processThrows
         IN /\ death = "throws" => deathCall
            /\ process = "throws" => processCall
            /\ boids' = IF deathThrows THEN boids
                        ELSE applyPopulationControls(
                                 RemoveKilled(boids, killedBoids) \o newBoids)
            /\ audioTriggerCount' = IF deathThrows THEN audioTriggerCount ELSE count
            /\ accumulatedTime' = IF loop = "ticks" /\ ~escaped
                                    THEN accumulatedTime - timeStep
                                    ELSE accumulatedTime
            /\ loop' = IF escaped THEN "stopped" ELSE loop
    /\ pc' = "idle"
    /\ ticks' = ticks + 1
    /\ cur' = 1
    /\ killedBoids' = << >>
    /\ newBoids' = << >>
    /\ passIds' = << >>
    /\ UNCHANGED << nextId, cursorMode, wallVars, canvas, events, lastOp, rt,
                    running, audioEnabled, audioReady, frames, frame, draws,
                    boidCount, traceVars >>
    /\ UNCHANGED cursorVars

(* Simulation.animate: the elapsed time is added and capped, then the ticks  *)
(* run (UpdateBegin .. UpdateEnd), then AnimateEnd draws and requests the    *)
(* next frame.                                                               *)
AnimateBegin(deltaTime) ==
    /\ loop = "wait"
    /\ pc = "idle"
    /\ frames < MaxFrames
    /\ frames' = frames + 1
    /\ accumulatedTime' = MinOf(accumulatedTime + deltaTime, maxFrameTime)
    /\ frame' = [start |-> accumulatedTime', ticks |-> 0, running |-> running]
    /\ loop' = "ticks"
    /\ UNCHANGED << boids, nextId, cursorMode, wallVars, canvas, tickVars, events,
                    lastOp, rt, running, audioEnabled, audioReady,
                    audioTriggerCount, draws, boidCount >>
    /\ UNCHANGED cursorVars

AnimateEnd ==
    /\ loop = "ticks"
    /\ pc = "idle"
    /\ ~running \/ accumulatedTime < timeStep
    /\ draws' = IF running THEN draws + 1 ELSE draws
    /\ loop' = "wait"
    /\ UNCHANGED << boids, nextId, cursorMode, wallVars, canvas, tickVars, events,
                    lastOp, rt, running, accumulatedTime, audioEnabled, audioReady,
                    audioTriggerCount, frames, frame, boidCount >>
    /\ UNCHANGED cursorVars

(* Simulation.reset *)
ResetAppends ==
    /\ Handler
    /\ boids' = boids \o initBoids(boidCount, InitPlaces, nextId)
    /\ nextId' = nextId + boidCount
    /\ lastOp' = Op("reset", <<0, 0>>, TRUE)
    /\ UNCHANGED << wallVars, cursorMode, canvas, tickVars, rt >>
    /\ UNCHANGED cursorVars

Reset ==
    /\ Handler
    /\ boids' = initBoids(boidCount, InitPlaces, nextId)
    /\ nextId' = nextId + boidCount
    /\ lastOp' = Op("reset", <<0, 0>>, TRUE)
    /\ UNCHANGED << wallVars, cursorMode, canvas, tickVars, rt >>
    /\ UNCHANGED cursorVars

(* Simulation.togglePause *)
TogglePause ==
    /\ Control
    /\ running' = ~running
    /\ lastOp' = Op("togglePause", <<0, 0>>, running')
    /\ UNCHANGED << boids, nextId, cursorMode, wallVars, canvas, tickVars, rt,
                    accumulatedTime, audioEnabled, audioReady, audioTriggerCount,
                    loop, frames, frame, draws, boidCount >>
    /\ UNCHANGED cursorVars

(* Simulation.toggleAudio with AudioEngine.toggle: the first call            *)
(* initializes the engine and returns true; later calls return false when    *)
(* the context was running (stop), true when it was suspended or closed,     *)
(* and _recreateAudioContext clears _initialized when it fails.              *)
ToggleAudio ==
    /\ Control
    /\ IF ~audioReady
         THEN audioEnabled' = TRUE /\ audioReady' = TRUE
         ELSE \E result \in { <<FALSE, TRUE>>, <<TRUE, TRUE>>, <<TRUE, FALSE>> } :
                 audioEnabled' = result[1] /\ audioReady' = result[2]
    /\ lastOp' = Op("toggleAudio", <<0, 0>>, audioEnabled')
    /\ UNCHANGED << boids, nextId, cursorMode, wallVars, canvas, tickVars, rt,
                    running, accumulatedTime, audioTriggerCount, loop, frames,
                    frame, draws, boidCount >>
    /\ UNCHANGED cursorVars

-----------------------------------------------------------------------------
(* Specifications *)

InitCommon ==
    /\ walls = << >>
    /\ currentWall = NullWall
    /\ lastDrawPoint = NullPoint
    /\ wallSpatialIndex = rebuildWallSpatialIndex(<< >>, NullWall)
    /\ canvas = InitCanvas
    /\ pc = "idle"
    /\ cur = 1
    /\ killedBoids = << >>
    /\ newBoids = << >>
    /\ passIds = << >>
    /\ ticks = 0
    /\ events = 0
    /\ lastOp = Op("constructor", <<0, 0>>, TRUE)
    /\ rt = RtInit
    /\ running = TRUE
    /\ accumulatedTime = 0
    /\ audioEnabled = FALSE
    /\ audioReady = FALSE
    /\ audioTriggerCount = 0
    /\ frames = 0
    /\ frame = [start |-> 0, ticks |-> 0, running |-> TRUE]
    /\ draws = 0
    /\ kills = << >>
    /\ chases = {}
    /\ bounce = NoBounce
    /\ births = << >>
    /\ cursorPosition = OffCanvas
    /\ touchActive = FALSE

(* Agents the ecosystem can hold between two ticks, written as health,       *)
(* reproductionCooldown and position.  A prey gains 1 a tick from 7501       *)
(* (7500 at spawn, then update(1.0)); a predator loses 12 a tick from 7988   *)
(* down to 8 (= 8000 - 666 * 12), or from the 15000 a kill caps it at        *)
(* (14196 = 15000 - 67 * 12).                                                *)
Agent(isPredator, health, cooldown, x, y) ==
    [NewBoid(0, x, y, isPredator) EXCEPT !.health = health,
                                         !.reproductionCooldown = cooldown]

InitAgents ==
    { Agent(FALSE, 8499, 0, 10, 10), Agent(FALSE, 7501, 99, 190, 10),
      Agent(TRUE, 14196, 1, 10, 10), Agent(TRUE, 8, 0, 190, 10),
      Agent(TRUE, 7988, 99, 190, 10) }

InitPopulations ==
    UNION { [1 .. n -> InitAgents] : n \in 0 .. MaxInitBoids }

WithIds(bs) == [k \in DOMAIN bs |-> [bs[k] EXCEPT !.id = k]]

(* The ecosystem: spawning, erasing, resizing and ticks *)
Init ==
    /\ InitCommon
    /\ loop = "none"
    /\ boidCount = 0
    /\ cursorMode = "BOID"
    /\ \E bs \in InitPopulations : boids = WithIds(bs)
    /\ nextId = Len(boids) + 1

EcoInput ==
    /\ events < MaxEcoEvents
    /\ \/ \E c \in Pointers : MouseDown(c)
       \/ \E mode \in { "BOID", "PREDATOR", "ERASER" } : SetCursorMode(mode)
       \/ \E dims \in ResizeDims : HandleResize(dims)

Next ==
    \/ EcoInput
    \/ StartTick(MaxTicks)
    \/ UpdateBoid
    \/ UpdateReproduce
    \/ UpdateEnd

Spec == Init /\ [][Next]_vars

(* The obstacles: drawing, erasing, clearing, resizing, from the state the   *)
(* constructor leaves                                                        *)
InitWalls ==
    /\ InitCommon
    /\ loop = "none"
    /\ cursorMode = "WALL"
    /\ boidCount \in BoidCounts
    /\ boids = initBoids(boidCount, InitPlaces, 1)
    /\ nextId = boidCount + 1

NextWalls ==
    \/ \E c \in Pointers : MouseDown(c)
    \/ \E c \in Pointers : \E buttons \in BOOLEAN : MouseMove(c, buttons, TRUE)
    \/ MouseUp
    \/ MouseLeave
    \/ \E c \in Pointers : TouchStart(c)
    \/ \E c \in Pointers : TouchMove(c, TRUE)
    \/ TouchEnd
    \/ TouchCancel
    \/ \E mode \in { "WALL", "ERASER" } : SetCursorMode(mode)
    \/ ClearWalls
    \/ \E dims \in ResizeDims : HandleResize(dims)
    \/ Reset

SpecWalls == InitWalls /\ [][NextWalls]_vars

(* The animation loop: frames with the elapsed times Deltas (6.7, 16.7, 43.3 *)
(* and 233 ms), the ticks they run, pause and audio toggles between frames.  *)
(* One agent is alive: a predator about to starve or a prey.                 *)
Deltas == { 20, 50, 130, 700 }

LoopPopulations ==
    { << Agent(TRUE, 8, 0, 190, 10) >>, << Agent(FALSE, 7501, 99, 190, 10) >> }

InitLoop ==
    /\ InitCommon
    /\ loop = "wait"
    /\ boidCount = 0
    /\ cursorMode = "BOID"
    /\ \E bs \in LoopPopulations : boids = WithIds(bs)
    /\ nextId = Len(boids) + 1

LoopInput ==
    /\ events < MaxLoopEvents
    /\ (TogglePause \/ ToggleAudio)

NextLoop ==
    \/ LoopInput
    \/ \E deltaTime \in Deltas : AnimateBegin(deltaTime)
    \/ UpdateBegin
    \/ UpdateBoid
    \/ UpdateReproduce
    \/ UpdateEnd
    \/ AnimateEnd

SpecLoop == InitLoop /\ [][NextLoop]_vars

(* Single agents and pairs in prepared states, one tick: a prey at the       *)
(* reproduction threshold, a prey and a predator at the same position, and   *)
(* agents in front of the obstacle a click at (107, 12) draws, whose points  *)
(* are (105, 10), (105, 14), (109, 10) and (109, 14).                        *)
ScenarioMoves == { <<3, 0>>, <<1, 0>>, <<-3, 0>> }

ScenarioAgents ==
    { Agent(FALSE, 8500, 0, 100, 10), Agent(FALSE, 8498, 0, 101, 10),
      Agent(FALSE, 7501, 99, 100, 12), Agent(TRUE, 7988, 99, 100, 10) }

ScenarioPopulations ==
    UNION { [1 .. n -> ScenarioAgents] : n \in 1 .. 2 }

ScenarioWalls == { << >>, << BrushPoints(107, 12, 1) >> }

InitBoid ==
    /\ walls \in ScenarioWalls
    /\ currentWall = NullWall
    /\ lastDrawPoint = NullPoint
    /\ wallSpatialIndex = rebuildWallSpatialIndex(walls, NullWall)
    /\ canvas = InitCanvas
    /\ cursorMode = "WALL"
    /\ \E bs \in ScenarioPopulations : boids = WithIds(bs)
    /\ nextId = Len(boids) + 1
    /\ pc = "idle"
    /\ loop = "none"
    /\ boidCount = 0
    /\ cur = 1
    /\ killedBoids = << >>
    /\ newBoids = << >>
    /\ passIds = << >>
    /\ ticks = 0
    /\ events = 0
    /\ lastOp = Op("constructor", <<0, 0>>, TRUE)
    /\ rt = RtInit
    /\ running = TRUE
    /\ accumulatedTime = 0
    /\ audioEnabled = FALSE
    /\ audioReady = FALSE
    /\ audioTriggerCount = 0
    /\ frames = 0
    /\ frame = [start |-> 0, ticks |-> 0, running |-> TRUE]
    /\ draws = 0
    /\ kills = << >>
    /\ chases = {}
    /\ bounce = NoBounce
    /\ births = << >>
    /\ cursorPosition = OffCanvas
    /\ touchActive = FALSE

NextBoid ==
    \/ StartTick(MaxTicks)
    \/ UpdateBoidAt(ScenarioMoves)
    \/ UpdateReproduce
    \/ UpdateEnd

SpecBoid == InitBoid /\ [][NextBoid]_vars

(* The hunt: a predator (health 50, 250 ticks after its birth) among prey    *)
(* at its own position and three pixels away, for the 31 ticks that span     *)
(* one hunting cooldown.                                                     *)
HuntPopulations ==
    { << Agent(TRUE, 5000, 0, 10, 10), Agent(FALSE, 7501, 99, 10, 10),
         Agent(FALSE, 7501, 99, 13, 10) >>,
      << Agent(FALSE, 7501, 99, 10, 10), Agent(TRUE, 5000, 0, 10, 10),
         Agent(FALSE, 7501, 99, 10, 10) >> }

InitHunt ==
    /\ InitCommon
    /\ loop = "none"
    /\ boidCount = 0
    /\ cursorMode = "BOID"
    /\ \E bs \in HuntPopulations : boids = WithIds(bs)
    /\ nextId = Len(boids) + 1

NextHunt ==
    \/ StartTick(MaxHuntTicks)
    \/ UpdateBoid
    \/ UpdateReproduce
    \/ UpdateEnd

SpecHunt == InitHunt /\ [][NextHunt]_vars

(* Breeding: a predator about to reproduce among six prey at its position,   *)
(* for the 301 ticks that span its reproduction cooldown.  All agents move   *)
(* alike and a newborn is put at one offset, so the predator and its         *)
(* offspring stay in contact with the prey and kill one every 30 ticks       *)
(* while prey are left.                                                      *)
BreedMoves == { <<3, 0>> }
BreedOffsets == { <<2, -3>> }

BreedPopulation ==
    << Agent(TRUE, 14196, 1, 10, 10) >>
      \o [k \in 1 .. 6 |-> Agent(FALSE, 7501, 99, 10, 10)]

InitBreed ==
    /\ InitCommon
    /\ loop = "none"
    /\ boidCount = 0
    /\ cursorMode = "BOID"
    /\ boids = WithIds(BreedPopulation)
    /\ nextId = Len(boids) + 1

NextBreed ==
    \/ StartTick(MaxBreedTicks)
    \/ UpdateBoidAt(BreedMoves)
    \/ UpdateReproduceAt(BreedOffsets)
    \/ UpdateEnd

SpecBreed == InitBreed /\ [][NextBreed]_vars

(* Starvation: a hungry predator with two prey at its position, which it     *)
(* kills in ticks 1 and 31 and then starves; a predator about to die with a  *)
(* prey out of its reach.  The simulation keeps ticking: every frame         *)
(* requests the next one, so a tick that can run does.                       *)
StarvePopulations ==
    { << Agent(TRUE, 30, 0, 10, 10), Agent(FALSE, 7501, 99, 10, 10),
         Agent(FALSE, 7501, 99, 10, 10) >>,
      << Agent(TRUE, 8, 0, 10, 10), Agent(FALSE, 7501, 99, 190, 10) >> }

InitStarve ==
    /\ InitCommon
    /\ loop = "none"
    /\ boidCount = 0
    /\ cursorMode = "BOID"
    /\ \E bs \in StarvePopulations : boids = WithIds(bs)
    /\ nextId = Len(boids) + 1

NextStarve ==
    \/ StartTick(MaxStarveTicks)
    \/ UpdateBoidAt(BreedMoves)
    \/ UpdateReproduceAt(BreedOffsets)
    \/ UpdateEnd

SpecStarve == InitStarve /\ [][NextStarve]_vars /\ WF_vars(NextStarve)

(* Cursor avoidance: one or two agents at pointer positions, the pointer     *)
(* moving over the canvas between the ticks.                                 *)
CursorAgents ==
    { Agent(FALSE, 7501, 99, 10, 10), Agent(TRUE, 7988, 99, 14, 10),
      Agent(FALSE, 8499, 0, 26, 10) }

CursorPopulations == UNION { [1 .. n -> CursorAgents] : n \in 1 .. 2 }

RemainingTouches == { << >> } \cup { << c >> : c \in Pointers }

InitCursor ==
    /\ InitCommon
    /\ loop = "none"
    /\ boidCount = 0
    /\ cursorMode = "BOID"
    /\ \E bs \in CursorPopulations : boids = WithIds(bs)
    /\ nextId = Len(boids) + 1

NextCursor ==
    \/ \E c \in Pointers : TrackMouseMove(c)
    \/ \E c \in Pointers : TrackMouseEnter(c)
    \/ TrackMouseLeave
    \/ \E c \in Pointers : TrackTouchStart(c)
    \/ \E c \in Pointers : TrackTouchMove(c)
    \/ \E touches \in RemainingTouches : TrackTouchEnd(touches)
    \/ \E touches \in RemainingTouches : TrackTouchCancel(touches)
    \/ StartTick(MaxCursorTicks)
    \/ UpdateBoid
    \/ UpdateReproduce
    \/ UpdateEnd

SpecCursor == InitCursor /\ [][NextCursor]_vars

(* The regulator on large populations: the state at the end of the agent     *)
(* pass of a tick, with predatorCount predators and preyCount prey (agents   *)
(* spawned while the simulation was paused, or born), none killed.           *)
PopPredators == { 0, 2, 3, 4, 90, 150, 200, 305, 1004 }
PopPrey == { 0, 1, 100, 101, 210, 297, 301, 600 }

Population(predatorCount, preyCount) ==
    [k \in 1 .. (predatorCount + preyCount) |->
        [NewBoid(k, 10, 10, k <= predatorCount)
            EXCEPT !.health = 5000 + 12 * (k % 3),
                   !.reproductionCooldown = 0]]

InitPop ==
    /\ walls = << >>
    /\ currentWall = NullWall
    /\ lastDrawPoint = NullPoint
    /\ wallSpatialIndex = EmptyIndex
    /\ canvas = InitCanvas
    /\ cursorMode = "BOID"
    /\ \E p \in PopPredators : \E q \in PopPrey : boids = Population(p, q)
    /\ nextId = Len(boids) + 1
    /\ pc = "end"
    /\ loop = "none"
    /\ boidCount = 0
    /\ cur = Len(boids) + 1
    /\ killedBoids = << >>
    /\ newBoids = << >>
    /\ passIds = << >>
    /\ ticks = 0
    /\ events = 0
    /\ lastOp = Op("constructor", <<0, 0>>, TRUE)
    /\ rt = RtInit
    /\ running = TRUE
    /\ accumulatedTime = 0
    /\ audioEnabled = FALSE
    /\ audioReady = FALSE
    /\ audioTriggerCount = 0
    /\ frames = 0
    /\ frame = [start |-> 0, ticks |-> 0, running |-> TRUE]
    /\ draws = 0
    /\ kills = << >>
    /\ chases = {}
    /\ bounce = NoBounce
    /\ births = << >>
    /\ cursorPosition = OffCanvas
    /\ touchActive = FALSE

SpecPop == InitPop /\ [][UpdateEnd]_vars

-----------------------------------------------------------------------------
(* Claims *)

PredatorCount == Len(SelectSeq(boids, IsPredator))
PreyCount == Len(SelectSeq(boids, IsPrey))

(* C1: at the end of every tick the agent collection holds no agent whose    *)
(* killed flag is true.                                                      *)
C1_NoKilledAgentAfterTick ==
    pc = "idle" => \A k \in DOMAIN boids : ~boids[k].killed

(* C2: after applyPopulationControls has run at the end of a tick the        *)
(* collection holds at most maxBoids agents, for any population.             *)
C2_PopulationAtMostMaxBoids ==
    (pc = "idle" /\ ticks > 0) => Len(boids) <= maxBoids

(* C8: after the regulator has run the predator share is at most             *)
(* maxPredatorRatio, unless the predators are already down to minPredators   *)
(* or the prey are too few for minPredators predators to meet the cap.       *)
C8_PredatorShareCapped ==
    (pc = "idle" /\ ticks > 0) =>
        \/ 10 * PredatorCount <= maxPredatorRatio10 * Len(boids)
        \/ PredatorCount <= minPredators
        \/ maxPredatorRatio10 * PreyCount
             < (10 - maxPredatorRatio10) * minPredators


(* The points the spatial index holds *)
IndexPoints ==
    UNION { SeqToSet(wallSpatialIndex[key]) : key \in DOMAIN wallSpatialIndex }

ObstaclePoints == SeqToSet(Flatten(walls)) \cup SeqToSet(currentWall.pts)

(* C3: after every obstacle-changing operation the points of the spatial     *)
(* index are the points of walls and of currentWall, each under the key of   *)
(* its cell.                                                                 *)
C3_IndexMatchesObstacles ==
    /\ IndexPoints = ObstaclePoints
    /\ \A key \in DOMAIN wallSpatialIndex :
          \A p \in SeqToSet(wallSpatialIndex[key]) : CellKey(p) = key

Ids(bs) == [k \in DOMAIN bs |-> bs[k].id]

(* C4: while the agent pass of a tick runs the collection keeps the same     *)
(* agents in the same order, and an offspring born in the tick is neither    *)
(* in the collection nor among the agents updated in the tick.               *)
C4_CollectionFixedDuringPass ==
    /\ [](pc # "idle" =>
            \A n \in DOMAIN newBoids :
                /\ newBoids[n].id \notin SeqToSet(Ids(boids))
                /\ newBoids[n].id \notin SeqToSet(passIds))
    /\ [][(pc \in { "boid", "repro" }) => (Ids(boids') = Ids(boids))]_vars

C4_Witness == pc = "boid" /\ Len(newBoids) > 0 /\ Len(killedBoids) > 0

(* C5: right after the update of an agent in a tick, every agent that is     *)
(* not marked killed has 0 <= health <= maxHealth.                           *)
C5_HealthInRange ==
    pc = "repro" =>
        \A k \in DOMAIN boids :
            ~boids[k].killed =>
                /\ 0 <= boids[k].health
                /\ boids[k].health <= maxHealth(boids[k])

C5_Witness ==
    /\ pc = "repro"
    /\ boids[cur].isPredator
    /\ boids[cur].health = maxHealth(boids[cur]) - healthDecayRate(boids[cur])
    /\ \E k \in DOMAIN boids : boids[k].killed /\ boids[k].health > 0
    /\ \E k \in DOMAIN boids : boids[k].killed /\ boids[k].health <= 0

(* C6: a call of reproduce() takes reproductionCost from the parent's        *)
(* health, clears readyToReproduce and returns one offspring of the          *)
(* parent's species.                                                         *)
C6_ReproduceEffect ==
    [][(pc = "repro" /\ boids[cur].readyToReproduce) =>
          /\ boids'[cur].health = boids[cur].health - reproductionCost(boids[cur])
          /\ ~boids'[cur].readyToReproduce
          /\ Len(newBoids') = Len(newBoids) + 1
          /\ newBoids'[Len(newBoids')].isPredator = boids[cur].isPredator]_vars

C6_Witness ==
    /\ \E n \in DOMAIN newBoids : newBoids[n].isPredator
    /\ \E n \in DOMAIN newBoids : ~newBoids[n].isPredator

(* C7: readyToReproduce is true only while reproductionCooldown <= 0 and     *)
(* health >= reproductionThreshold.                                          *)
C7_ReadyOnlyWhenEligible ==
    \A k \in DOMAIN boids :
        boids[k].readyToReproduce =>
            /\ boids[k].reproductionCooldown <= 0
            /\ boids[k].health >= reproductionThreshold(boids[k])

C7_Witness ==
    /\ pc = "repro"
    /\ boids[cur].readyToReproduce
    /\ \E k \in DOMAIN boids :
          /\ boids[k].reproductionCooldown > 0
          /\ boids[k].health >= reproductionThreshold(boids[k])

ReleaseOps == { "release" }
EraseOps == { "eraseWallsAt", "eraseAlong" }

QueryRadii == { collisionRadius, size, wallDetectionRadius }

RtCovered ==
    /\ rt.phase = "drawn"
    /\ rt.pts # {}
    /\ \A p \in rt.pts :
          \E e \in rt.erasedAt :
              DistSq(p.x, p.y, e[1], e[2]) <= eraserSize * eraserSize

(* C9: a stroke drawn on the empty canvas (pointer down, moves, release) and *)
(* then erased at positions that cover all its points leaves walls and the   *)
(* spatial index empty, and isPointNearWall false along the path.            *)
C9_DrawEraseRoundTrip ==
    RtCovered =>
        /\ walls = << >>
        /\ wallSpatialIndex = EmptyIndex
        /\ \A q \in rt.path : \A r \in QueryRadii :
              ~isPointNearWall(wallSpatialIndex, currentWall, q[1], q[2], r)

C9_Witness ==
    /\ RtCovered
    /\ Cardinality(rt.path) > 1
    /\ lastOp.op \in EraseOps /\ lastOp.ret

(* C10: a release event retires the stroke in progress into walls and        *)
(* leaves currentWall null, whatever the cursor mode; retired strokes then   *)
(* change only through eraseWallsAt or clearWalls.                           *)
C10_StrokeRetiredOnRelease ==
    [][/\ (events' = events + 1 /\ lastOp'.op \in ReleaseOps /\ ~currentWall.isNull)
            => (currentWall'.isNull /\ walls' = Append(walls, currentWall.pts))
       /\ (events' = events + 1 /\ walls' # walls)
            => \/ lastOp'.op \in ReleaseOps /\ walls' = Append(walls, currentWall.pts)
               \/ lastOp'.op \in EraseOps
               \/ lastOp'.op = "clearWalls"]_vars

C12_TickSurvivesAudioFailure ==
    [][(pc = "end" /\ pc' = "idle") =>
          /\ boids' = applyPopulationControls(
                          RemoveKilled(boids, killedBoids) \o newBoids)
          /\ loop = "ticks" => /\ accumulatedTime' = accumulatedTime - timeStep
                               /\ loop' = "ticks"]_vars

(* C13: while running is false an animation frame runs no tick and no draw:  *)
(* it leaves the agents, the tick count, the audio trigger counter and the   *)
(* draw count as they were, and no tick is ever in progress.                 *)
C13_PausedFramesChangeNothing ==
    /\ [](~running => pc = "idle")
    /\ [][(~running /\ loop' # loop) =>
              /\ boids' = boids
              /\ ticks' = ticks
              /\ audioTriggerCount' = audioTriggerCount
              /\ draws' = draws]_vars

C13_Witness ==
    /\ ~running /\ ~frame.running
    /\ loop = "wait" /\ frames > 1
    /\ ticks > 0 /\ boids # << >>
    /\ accumulatedTime >= timeStep

(* C14: after reset() the collection holds exactly config.boidCount agents,  *)
(* all newly created, round(0.15 * boidCount) of them predators and the rest *)
(* prey; no agent from before the reset remains; walls and the spatial index *)
(* are unchanged.                                                            *)
C14_ResetReseeds ==
    [][(events' = events + 1 /\ lastOp'.op = "reset") =>
          LET predators == Len(SelectSeq(boids', IsPredator))
          IN /\ Len(boids') = boidCount
             /\ 100 * predators <= 15 * boidCount + 50
             /\ 15 * boidCount + 50 < 100 * (predators + 1)
             /\ \A k \in DOMAIN boids' :
                   /\ boids'[k].id \notin SeqToSet(Ids(boids))
                   /\ boids'[k].health = initialHealth(boids'[k].isPredator)
                   /\ boids'[k].reproductionCooldown = initialReproductionCooldown
                   /\ ~boids'[k].killed /\ ~boids'[k].readyToReproduce
             /\ walls' = walls
             /\ wallSpatialIndex' = wallSpatialIndex]_vars

C14_Witness ==
    /\ lastOp.op = "reset"
    /\ walls # << >>
    /\ PredatorCount > 0 /\ PreyCount > PredatorCount
    /\ nextId > 2 * boidCount

-----------------------------------------------------------------------------
(* C15: a prey whose health equals reproductionThreshold and whose           *)
(* reproductionCooldown is 0 has readyToReproduce = true after one call of   *)
(* Boid.update.                                                              *)
C15_ReadyAtThreshold ==
    [][(/\ pc = "boid"
        /\ pc' = "repro"
        /\ ~boids[cur].isPredator
        /\ boids[cur].health = reproductionThreshold(boids[cur])
        /\ boids[cur].reproductionCooldown = 0)
         => boids'[cur].readyToReproduce]_vars

C15_Witness ==
    /\ pc = "repro"
    /\ ~boids[cur].isPredator
    /\ boids[cur].health = reproductionThreshold(boids[cur]) + 1
    /\ boids[cur].reproductionCooldown = 0
    /\ boids[cur].readyToReproduce

-----------------------------------------------------------------------------
(* C16: when a predator that is not on hunting cooldown is updated with a    *)
(* prey at exactly its own position, its acceleration is non-zero after the  *)
(* update of that tick.                                                      *)
SamePlace(i) ==
    { j \in DOMAIN boids :
        ~boids[j].isPredator /\ boids[j].x = boids[i].x /\ boids[j].y = boids[i].y }

C16_ChaseAtZeroDistance ==
    [][(/\ pc = "boid"
        /\ pc' = "repro"
        /\ boids[cur].isPredator
        /\ boids[cur].huntingCooldown = 0
        /\ SamePlace(cur) # {})
         => boids'[cur].acceleration # "zero"]_vars

-----------------------------------------------------------------------------
(* C17: handleWallCollision turns the velocity v into restitution times the  *)
(* mirror image of v about the obstacle normal n: the component along n      *)
(* changes sign, the component across n keeps it, both are scaled by the     *)
(* restitution; a result slower than minSpeed keeps that direction and gets  *)
(* the length minSpeed.  Velocity (3,0) against normal (-1,0) gives          *)
(* (-3 * restitution, 0).  Components are compared in hundredths, up to the  *)
(* rounding of the fixed-point arithmetic.                                   *)
Along(v, n) == Quot(v[1] * n[1] + v[2] * n[2], 1000)
Across(v, n) == Quot(v[2] * n[1] - v[1] * n[2], 1000)

C17_ReflectionWithRestitution ==
    bounce.hit =>
      LET Rounding == 3
          v == bounce.v
          n == bounce.normal
          out == bounce.out
          slow == restitution * restitution * (v[1] * v[1] + v[2] * v[2])
                    < 100 * minSpeed * minSpeed
          lengthSq == out[1] * out[1] + out[2] * out[2]
      IN /\ ~slow =>
              /\ AbsVal(10 * Along(out, n) + restitution * Along(v, n)) <= 10 * Rounding
              /\ AbsVal(10 * Across(out, n) - restitution * Across(v, n)) <= 10 * Rounding
         /\ slow =>
              /\ lengthSq <= (minSpeed + Rounding) * (minSpeed + Rounding)
              /\ lengthSq >= (minSpeed - Rounding) * (minSpeed - Rounding)
              /\ Along(out, n) * Along(v, n) <= 0
              /\ Across(out, n) * Across(v, n) >= 0
              /\ AbsVal(Along(out, n) * Across(v, n) + Across(out, n) * Along(v, n))
                    <= Rounding * minSpeed
         /\ (v = <<300, 0>> /\ n = <<-1000, 0>>) =>
              (out = << -30 * restitution, 0 >> /\ out[1] < 0)

C17_Witness ==
    /\ bounce.hit
    /\ bounce.v = <<300, 0>>
    /\ bounce.normal = <<-1000, 0>>
    /\ bounce.out[1] < 0

-----------------------------------------------------------------------------
(* C18: an animation frame taken while running has, when it is over, run     *)
(* exactly floor(accumulatedTime / timeStep) ticks of the accumulatedTime    *)
(* it started with after the cap, and leaves 0 <= accumulatedTime <          *)
(* timeStep.                                                                 *)
C18_FrameRunsWholeTicks ==
    (frames > 0 /\ frame.running /\ loop \in { "wait", "stopped" }) =>
        /\ frame.start <= maxFrameTime
        /\ frame.ticks = frame.start \div timeStep
        /\ accumulatedTime >= 0
        /\ accumulatedTime < timeStep

-----------------------------------------------------------------------------
(* C19: two kills of one predator are at least 30 ticks apart, so it kills   *)
(* at most one prey in a tick and none in the 29 ticks after a kill; it      *)
(* does not chase in those 29 ticks either; and one update marks at most     *)
(* one prey as killed.                                                       *)
C19_HuntingCooldownHolds ==
    /\ [](\A a \in DOMAIN kills : \A b \in DOMAIN kills :
            (a < b /\ kills[a].hunter = kills[b].hunter)
              => kills[b].tick - kills[a].tick > 29)
    /\ [](\A a \in DOMAIN kills : \A c \in chases :
            (c[1] = kills[a].hunter /\ c[2] > kills[a].tick)
              => c[2] - kills[a].tick > 29)
    /\ [][(pc = "boid" /\ pc' = "repro") =>
            Cardinality({ j \in DOMAIN boids :
                            /\ j # cur
                            /\ ~boids[j].killed
                            /\ boids'[j].killed }) <= 1]_vars

C19_Witness ==
    \E a \in DOMAIN kills : \E b \in DOMAIN kills :
        /\ kills[a].hunter = kills[b].hunter
        /\ kills[b].tick = kills[a].tick + 30
        /\ \E i \in DOMAIN boids :
              /\ boids[i].id = kills[a].hunter
              /\ << boids[i].id, kills[b].tick >> \in chases

-----------------------------------------------------------------------------
(* C20: no prey is the target of two kills: once a predator has killed it,   *)
(* no predator selects it as a kill target again.                            *)
C20_PreyKilledOnce ==
    \A a \in DOMAIN kills : \A b \in DOMAIN kills :
        a # b => kills[a].target # kills[b].target

-----------------------------------------------------------------------------
(* The collection applyPopulationControls is called on at the end of a tick *)
Regulated == RemoveKilled(boids, killedBoids) \o newBoids

(* C21: over maxBoids the regulator removes exactly the excess:              *)
(* predatorsToRemove and preyToRemove are both non-negative, neither exceeds *)
(* the count of its species and together they are the excess, so maxBoids    *)
(* agents remain; at or below maxBoids it removes none.                      *)
C21_ExcessRemovedExactly ==
    [][(pc = "end" /\ pc' = "idle") =>
          LET predatorCount == Len(SelectSeq(Regulated, IsPredator))
              preyCount == Len(SelectSeq(Regulated, IsPrey))
              excessBoids == predatorCount + preyCount - maxBoids
              pRemove == predatorsToRemove(predatorCount, preyCount)
              qRemove == excessBoids - pRemove
          IN IF excessBoids > 0
               THEN /\ pRemove >= 0
                    /\ qRemove >= 0
                    /\ pRemove <= predatorCount
                    /\ qRemove <= preyCount
                    /\ Len(boids') = maxBoids
               ELSE boids' = Regulated]_vars

-----------------------------------------------------------------------------
(* C22: the regulator never takes the predators below minPredators: with at  *)
(* least minPredators predators before it runs at least minPredators remain, *)
(* and with fewer it removes no predator.                                    *)
C22_MinPredatorsKept ==
    [][(pc = "end" /\ pc' = "idle") =>
          LET before == Len(SelectSeq(Regulated, IsPredator))
              after == Len(SelectSeq(boids', IsPredator))
          IN /\ before >= minPredators => after >= minPredators
             /\ before < minPredators => after = before]_vars

(* Predators carry the ids 1 .. predatorCount before the regulator runs, so  *)
(* a predator with a larger id among exactly minPredators predators shows    *)
(* that the regulator has culled predators down to the floor.                *)
C22_Witness ==
    /\ pc = "idle"
    /\ ticks > 0
    /\ PredatorCount = minPredators
    /\ \E k \in DOMAIN boids :
          boids[k].isPredator /\ boids[k].id > minPredators

-----------------------------------------------------------------------------
(* C23: the agents the regulator culls from a species are its lowest-health  *)
(* ones: every culled agent's health is at most the health of every          *)
(* surviving agent of the same species.                                      *)
C23_LowestHealthCulled ==
    [][(pc = "end" /\ pc' = "idle") =>
          LET bs == Regulated
              kept == { boids'[k].id : k \in DOMAIN boids' }
              culled == [p \in BOOLEAN |->
                           { bs[c].health :
                               c \in { k \in DOMAIN bs :
                                         /\ ~bs[k].killed
                                         /\ bs[k].isPredator = p
                                         /\ bs[k].id \notin kept } }]
              survivors == [p \in BOOLEAN |->
                              { bs[c].health :
                                  c \in { k \in DOMAIN bs :
                                            /\ bs[k].isPredator = p
                                            /\ bs[k].id \in kept } }]
          IN \A p \in BOOLEAN :
                \A c \in culled[p] : \A s \in survivors[p] : c <= s]_vars

(* Part of a species has been culled and its survivors differ in health *)
C23_Witness ==
    /\ pc = "idle"
    /\ ticks > 0
    /\ Len(boids) = maxBoids
    /\ Len(boids) < nextId - 1
    /\ \E a \in DOMAIN boids : \E b \in DOMAIN boids :
          /\ boids[a].isPredator = boids[b].isPredator
          /\ boids[a].health < boids[b].health

-----------------------------------------------------------------------------
(* C24: a predator that is not on hunting cooldown kills the nearest prey    *)
(* within preyDetectionRadius exactly when their distance is at most the sum *)
(* of the two agents' collision radii, and the kill raises its health by     *)
(* healthGainPerKill, clamped to maxHealth.                                  *)
C24_KillOnContact ==
    [][(pc = "boid" /\ pc' = "repro") =>
          LET j == chaseTarget(boids, cur)
          IN j # 0 =>
               LET distSquared == DistSq(boids[j].x, boids[j].y,
                                         boids[cur].x, boids[cur].y)
                   contact == collisionRadius + collisionRadius
                   hunted == chasePrey(boids, cur)
                   kill == Len(kills') > Len(kills)
               IN /\ kill <=> distSquared <= contact * contact
                  /\ kill => /\ hunted[j].killed
                             /\ hunted[cur].health
                                  = MinOf(boids[cur].health + healthGainPerKill,
                                          maxHealth(boids[cur]))]_vars

-----------------------------------------------------------------------------
(* C25: an agent whose killed flag is set produces no offspring.             *)
C25_KilledAgentHasNoOffspring ==
    [][(pc = "repro" /\ Len(newBoids') > Len(newBoids)) =>
          ~boids[cur].killed]_vars

-----------------------------------------------------------------------------
-----------------------------------------------------------------------------
(* C27: while the simulation keeps ticking, a predator that makes no kill is *)
(* killed by the decay of its health and removed: it is gone within          *)
(* ceil(health / healthDecayRate) ticks of its last kill, and no predator    *)
(* whose health is used up outlives the tick.  A prey is never killed by the *)
(* decay.                                                                    *)
StarveIds == { 1 }

Present(i) == \E k \in DOMAIN boids : boids[k].id = i

Starving(i) ==
    /\ pc = "idle"
    /\ kills = << >> \/ \A k \in DOMAIN boids : boids[k].isPredator
    /\ \E k \in DOMAIN boids :
          /\ boids[k].id = i
          /\ boids[k].isPredator
          /\ ticks + CeilDiv(boids[k].health, healthDecayRate(boids[k]))
               <= MaxStarveTicks

LastKill(k) ==
    \A m \in DOMAIN kills : kills[m].hunter = kills[k].hunter => m <= k

C27_PredatorStarves ==
    /\ \A i \in StarveIds : Starving(i) ~> ~Present(i)
    /\ [](pc = "idle" =>
            \A b \in DOMAIN boids : boids[b].isPredator => boids[b].health > 0)
    /\ [](pc = "idle" =>
            \A b \in DOMAIN boids : \A k \in DOMAIN kills :
                (boids[b].id = kills[k].hunter /\ LastKill(k))
                  => ticks - kills[k].tick
                       < CeilDiv(kills[k].health, healthDecayRate(boids[b])))
    /\ [](\A b \in DOMAIN boids :
            ~boids[b].isPredator =>
                /\ boids[b].health > 0
                /\ boids[b].killed =>
                      \E k \in DOMAIN kills : kills[k].target = boids[b].id)

(* The predator is gone in the last tick its health after its last kill      *)
(* allows                                                                    *)
C27_Witness ==
    /\ pc = "idle"
    /\ \E k \in DOMAIN kills :
          /\ LastKill(k)
          /\ k > 1
          /\ ~Present(kills[k].hunter)
          /\ ticks - kills[k].tick + 1 = CeilDiv(kills[k].health, 12)

-----------------------------------------------------------------------------
(* C28: while the spatial index holds the points of walls and currentWall,   *)
(* isPointNearWall on the index returns what the scan of every obstacle      *)
(* point returns, for every query point and radius.                          *)
QueryPoints == { << x, y >> : x \in 10 .. 30, y \in { 10, 17, 21 } }

C28_IndexedEqualsBruteForce ==
    IndexPoints = ObstaclePoints =>
        \A q \in QueryPoints : \A r \in QueryRadii :
            isPointNearWall(wallSpatialIndex, currentWall, q[1], q[2], r)
              = isPointNearWallAllPoints(walls, currentWall, q[1], q[2], r)

(* A query point touches obstacle points of other grid cells only *)
C28_Witness ==
    /\ IndexPoints = ObstaclePoints
    /\ currentWall.isNull
    /\ \E q \in QueryPoints : \E r \in QueryRadii :
          /\ isPointNearWall(wallSpatialIndex, currentWall, q[1], q[2], r)
          /\ \A p \in IndexPoints :
                Touches(p, q[1], q[2], r)
                  => CellKey(p) # << q[1] \div gridCellSize,
                                     q[2] \div gridCellSize >>

-----------------------------------------------------------------------------
(* C29: the regulator takes its 'too few prey' branch for no population:     *)
(* over maxBoids the cull is decided by the predator-excess branch or by the *)
(* proportional branch.                                                      *)
C29_PreyBranchNeverTaken ==
    pc = "end" =>
        LET predatorCount == Len(SelectSeq(Regulated, IsPredator))
            preyCount == Len(SelectSeq(Regulated, IsPrey))
        IN predatorCount + preyCount > maxBoids
             => cullBranch(predatorCount, preyCount) # "prey"

(* Over maxBoids with more than minPredators predators and a predator share  *)
(* within maxPredatorRatio: the proportional branch decides                  *)
C29_Witness ==
    /\ pc = "end"
    /\ Len(Regulated) > maxBoids
    /\ Len(SelectSeq(Regulated, IsPredator)) > minPredators
    /\ cullBranch(Len(SelectSeq(Regulated, IsPredator)),
                  Len(SelectSeq(Regulated, IsPrey))) = "proportional"

-----------------------------------------------------------------------------
(* C30: no steering or collision routine divides by a zero length: the force *)
(* on an agent exactly at the cursor position is finite, so no agent gets a  *)
(* NaN acceleration, velocity or position.                                   *)
C30_ForcesFinite ==
    \A k \in DOMAIN boids :
        ~boids[k].isNaN /\ boids[k].acceleration # "NaN"

====
